---- MODULE Spec2Model ----
(***************************************************************************)
(* SnapLaw: the rule-based core of the legal document analyzer             *)
(* (src/utils.py): the risk pattern catalog, detect_risk_clauses,          *)
(* calculate_complexity_score and calculate_risk_score, run by one or two  *)
(* Python threads that share the module-level catalog; and the layer above *)
(* it (src/analyzer.py, src/app.py): the module-level DocumentAnalyzer and  *)
(* the /analyze and /ask handlers, handling request after request.          *)
(*                                                                         *)
(* A text is a sequence of characters, each character a one-character      *)
(* string; "I_dot" stands for U+0130 (capital I with dot above) and        *)
(* "dot_above" for U+0307, the two characters str.lower() turns it into.   *)
(* Offsets are Python's, counted from 0: character i of s is s[i + 1].     *)
(* Floats are modelled as exact fractions <<numerator, denominator>>;      *)
(* IEEE rounding is not modelled.                                          *)
(***************************************************************************)
EXTENDS Integers, Sequences, FiniteSets, TLC

VARIABLES RISK_PATTERNS, frame, analyzer, request, last_passed

vars == <<RISK_PATTERNS, frame, analyzer, request, last_passed>>

----------------------------------------------------------------------------
(* Bounds of the model *)

\* Longest text, in segments, that a call is given.
MaxSegs == 3
\* Longest findings sequence given to calculate_risk_score.
MaxFindings == 6
\* Longest second findings sequence the monotonicity comparison ranges over.
MaxCompare == 3
\* How many I_dot characters the segment of dotted capitals holds.
DottedRun == 20

----------------------------------------------------------------------------
(* Integer and set helpers *)

MinOf(S) == CHOOSE x \in S : \A y \in S : x <= y

MaxOf(S) == CHOOSE x \in S : \A y \in S : x >= y

RECURSIVE Gcd(_, _)
Gcd(a, b) == IF b = 0 THEN a ELSE Gcd(b, a % b)

----------------------------------------------------------------------------
(* Fractions: the values of Python's float arithmetic, kept exact *)

Frac(n, d) == LET g == Gcd(IF n < 0 THEN -n ELSE n, d) IN <<n \div g, d \div g>>

FAdd(a, b) == Frac(a[1] * b[2] + b[1] * a[2], a[2] * b[2])

FMul(a, b) == Frac(a[1] * b[1], a[2] * b[2])

FLe(a, b) == a[1] * b[2] <= b[1] * a[2]

FLt(a, b) == a[1] * b[2] < b[1] * a[2]

\* Python's min(a, b): b when b < a, else a.
FMin(a, b) == IF FLt(b, a) THEN b ELSE a

----------------------------------------------------------------------------
(* Python string operations *)

UpperCase == <<"A","B","C","D","E","F","G","H","I","J","K","L","M",
               "N","O","P","Q","R","S","T","U","V","W","X","Y","Z">>

LowerCase == <<"a","b","c","d","e","f","g","h","i","j","k","l","m",
               "n","o","p","q","r","s","t","u","v","w","x","y","z">>

Whitespace == {" ", "\n"}

\* str.lower() of one character: U+0130 becomes two characters.
lower_char(c) ==
    IF c = "I_dot" THEN <<"i", "dot_above">>
    ELSE IF \E i \in 1..Len(UpperCase) : UpperCase[i] = c
         THEN <<LowerCase[CHOOSE i \in 1..Len(UpperCase) : UpperCase[i] = c]>>
         ELSE <<c>>

\* The lowered characters a..b of s, in order.
RECURSIVE lower_range(_, _, _)
lower_range(s, a, b) ==
    IF a > b THEN <<>>
    ELSE IF a = b THEN lower_char(s[a])
    ELSE LET mid == (a + b) \div 2
         IN  lower_range(s, a, mid) \o lower_range(s, mid + 1, b)

\* str.lower()
lower(s) == lower_range(s, 1, Len(s))

\* str.strip()
strip(s) ==
    LET keep == {i \in 1..Len(s) : s[i] \notin Whitespace}
    IN  IF keep = {} THEN <<>> ELSE SubSeq(s, MinOf(keep), MaxOf(keep))

\* s.find(ch, from): the lowest offset >= from holding ch, else -1.
find(s, ch, from) ==
    LET hits == {i \in from..(Len(s) - 1) : s[i + 1] = ch}
    IN  IF hits = {} THEN -1 ELSE MinOf(hits)

\* s.rfind(ch, lo, hi): the highest offset in [lo, hi) holding ch, else -1;
\* hi is clipped to len(s) as slices are.
rfind(s, ch, lo, hi) ==
    LET top == IF hi > Len(s) THEN Len(s) ELSE hi
        hits == {i \in lo..(top - 1) : s[i + 1] = ch}
    IN  IF hits = {} THEN -1 ELSE MaxOf(hits)

\* s[start:end] for start, end >= 0, clipped to len(s).
slice(s, start, end) ==
    LET e == IF end > Len(s) THEN Len(s) ELSE end
    IN  IF start >= e THEN <<>> ELSE SubSeq(s, start + 1, e)

\* The non-empty pieces of s between runs of one or more characters of
\* seps, in order: what re.split(r'[...]+', s) returns, less its empty strings.
pieces_between(s, seps) ==
    LET starts == {i \in 1..Len(s) :
                      s[i] \notin seps /\ (i = 1 \/ s[i - 1] \in seps)}
        stop(i) == MinOf({j \in i..Len(s) : j = Len(s) \/ s[j + 1] \in seps})
        nth(k)  == CHOOSE i \in starts : Cardinality({j \in starts : j <= i}) = k
    IN  [k \in 1..Cardinality(starts) |-> SubSeq(s, nth(k), stop(nth(k)))]

NonEmpty(pieces) == SelectSeq(pieces, LAMBDA x : x # <<>>)

\* str.split(): the whitespace-separated words, none empty.
split(s) == pieces_between(s, Whitespace)

\* [x.strip() for x in pieces]
strip_each(pieces) == [k \in 1..Len(pieces) |-> strip(pieces[k])]

----------------------------------------------------------------------------
(* Python's re: the subset the catalog's patterns use *)
(* (literals, c? and the greedy .* that does not cross a newline)          *)

\* Where the line holding offset i ends.
line_end(s, i) ==
    LET e == find(s, "\n", i) IN IF e = -1 THEN Len(s) ELSE e

RECURSIVE match_at(_, _, _, _)
RECURSIVE star_match(_, _, _, _, _)

\* The end offset of the match of pattern p from its element k on, starting
\* at offset i of s, as the backtracking matcher prefers it; -1 for none.
match_at(p, k, s, i) ==
    IF k > Len(p) THEN i
    ELSE IF p[k] = "." /\ k < Len(p) /\ p[k + 1] = "*"
         THEN star_match(p, k + 2, s, i, line_end(s, i))
    ELSE IF k < Len(p) /\ p[k + 1] = "?"
         THEN LET with == IF i < Len(s) /\ s[i + 1] = p[k]
                          THEN match_at(p, k + 2, s, i + 1) ELSE -1
              IN  IF with # -1 THEN with ELSE match_at(p, k + 2, s, i)
    ELSE IF p[k] = "."
         THEN IF i < Len(s) /\ s[i + 1] # "\n"
              THEN match_at(p, k + 1, s, i + 1) ELSE -1
    ELSE IF i < Len(s) /\ s[i + 1] = p[k]
         THEN match_at(p, k + 1, s, i + 1) ELSE -1

\* .* may take s[i:j] for any j up to top; it takes the longest stretch
\* after which the rest of the pattern matches.
star_match(p, k, s, i, top) ==
    LET stops == {j \in i..top : match_at(p, k, s, j) # -1}
    IN  IF stops = {} THEN -1 ELSE match_at(p, k, s, MaxOf(stops))

\* The leftmost match starting at or after pos: <<start, end>>, or <<-1, -1>>.
search(p, s, pos) ==
    LET starts == {i \in pos..Len(s) : match_at(p, 1, s, i) # -1}
    IN  IF starts = {} THEN <<-1, -1>>
        ELSE <<MinOf(starts), match_at(p, 1, s, MinOf(starts))>>

\* re.finditer(p, s): the successive non-overlapping matches, left to right.
RECURSIVE finditer_from(_, _, _)
finditer_from(p, s, pos) ==
    LET m == search(p, s, pos)
    IN  IF m[1] = -1 THEN <<>>
        ELSE <<m>> \o finditer_from(p, s, IF m[2] = m[1] THEN m[2] + 1 ELSE m[2])

finditer(p, s) == finditer_from(p, s, 0)

----------------------------------------------------------------------------
(* The risk pattern catalog: the module-level dict, in insertion order *)

Severities == {"Low", "Medium", "High"}

Catalog == <<
  [key |-> "binding_arbitration",
   patterns |-> <<
     <<"b","i","n","d","i","n","g"," ","a","r","b","i","t","r","a","t","i","o","n">>,
     <<"a","r","b","i","t","r","a","t","i","o","n"," ","c","l","a","u","s","e">>,
     <<"w","a","i","v","e",".","*","r","i","g","h","t",".","*","j","u","r","y"," ","t","r","i","a","l">>,
     <<"r","e","s","o","l","v","e",".","*","d","i","s","p","u","t","e","s",".","*","a","r","b","i","t","r","a","t","i","o","n">>,
     <<"m","a","n","d","a","t","o","r","y"," ","a","r","b","i","t","r","a","t","i","o","n">> >>,
   type |-> "Binding Arbitration",
   severity |-> "High",
   explanation |-> "You may be giving up your right to sue in court and must resolve disputes through arbitration."],
  [key |-> "non_refundable",
   patterns |-> <<
     <<"n","o","n","-","r","e","f","u","n","d","a","b","l","e">>,
     <<"n","o"," ","r","e","f","u","n","d","s","?">>,
     <<"a","l","l"," ","s","a","l","e","s"," ","f","i","n","a","l">>,
     <<"p","a","y","m","e","n","t","s","?",".","*","n","o","t",".","*","r","e","f","u","n","d">>,
     <<"f","e","e","s"," ","a","r","e"," ","f","i","n","a","l">> >>,
   type |-> "Non-refundable",
   severity |-> "Medium",
   explanation |-> "You may not be able to get your money back under any circumstances."],
  [key |-> "automatic_renewal",
   patterns |-> <<
     <<"a","u","t","o","m","a","t","i","c",".","*","r","e","n","e","w","a","l">>,
     <<"a","u","t","o",".","*","r","e","n","e","w">>,
     <<"a","u","t","o","m","a","t","i","c","a","l","l","y",".","*","e","x","t","e","n","d">>,
     <<"r","e","n","e","w",".","*","u","n","l","e","s","s",".","*","c","a","n","c","e","l">>,
     <<"a","u","t","o","-","r","e","n","e","w","a","l">> >>,
   type |-> "Auto-renewal",
   severity |-> "Medium",
   explanation |-> "The contract will automatically renew unless you actively cancel it."],
  [key |-> "liability_waiver",
   patterns |-> <<
     <<"w","a","i","v","e",".","*","l","i","a","b","i","l","i","t","y">>,
     <<"n","o","t",".","*","l","i","a","b","l","e",".","*","d","a","m","a","g","e","s">>,
     <<"d","i","s","c","l","a","i","m",".","*","w","a","r","r","a","n","t","i","e","s">>,
     <<"u","s","e",".","*","a","t",".","*","o","w","n",".","*","r","i","s","k">>,
     <<"h","o","l","d"," ","h","a","r","m","l","e","s","s">> >>,
   type |-> "Liability Waiver",
   severity |-> "High",
   explanation |-> "The company may not be responsible for damages or problems that occur."],
  [key |-> "data_collection",
   patterns |-> <<
     <<"c","o","l","l","e","c","t",".","*","p","e","r","s","o","n","a","l",".","*","d","a","t","a">>,
     <<"s","h","a","r","e",".","*","i","n","f","o","r","m","a","t","i","o","n",".","*","t","h","i","r","d",".","*","p","a","r","t","i","e","s">>,
     <<"s","e","l","l",".","*","d","a","t","a">>,
     <<"t","r","a","c","k","i","n","g",".","*","c","o","o","k","i","e","s">>,
     <<"p","e","r","s","o","n","a","l"," ","i","n","f","o","r","m","a","t","i","o","n">> >>,
   type |-> "Data Collection",
   severity |-> "Medium",
   explanation |-> "Your personal information may be collected, stored, or shared with other companies."],
  [key |-> "termination_rights",
   patterns |-> <<
     <<"t","e","r","m","i","n","a","t","e",".","*","a","t",".","*","w","i","l","l">>,
     <<"s","u","s","p","e","n","d",".","*","a","c","c","o","u","n","t",".","*","a","n","y",".","*","t","i","m","e">>,
     <<"d","i","s","c","o","n","t","i","n","u","e",".","*","s","e","r","v","i","c","e",".","*","n","o","t","i","c","e">>,
     <<"m","o","d","i","f","y",".","*","t","e","r","m","s",".","*","w","i","t","h","o","u","t",".","*","n","o","t","i","c","e">> >>,
   type |-> "Unfair Termination",
   severity |-> "High",
   explanation |-> "The company can end the agreement or change terms with little or no notice."] >>

legal_terms == {
     <<"w","h","e","r","e","a","s">>,
     <<"h","e","r","e","t","o","f","o","r","e">>,
     <<"h","e","r","e","i","n","a","f","t","e","r">>,
     <<"n","o","t","w","i","t","h","s","t","a","n","d","i","n","g">>,
     <<"a","f","o","r","e","m","e","n","t","i","o","n","e","d">>,
     <<"p","u","r","s","u","a","n","t">>,
     <<"t","h","e","r","e","o","f">>,
     <<"h","e","r","e","b","y">>,
     <<"h","e","r","e","u","n","d","e","r">>,
     <<"i","n","d","e","m","n","i","f","y">>,
     <<"c","o","v","e","n","a","n","t">>,
     <<"w","a","r","r","a","n","t","y">>,
     <<"l","i","a","b","i","l","i","t","y">>,
     <<"j","u","r","i","s","d","i","c","t","i","o","n">>,
     <<"a","r","b","i","t","r","a","t","i","o","n">>,
     <<"s","e","v","e","r","a","b","i","l","i","t","y">>,
     <<"c","o","n","s","i","d","e","r","a","t","i","o","n">>,
     <<"b","r","e","a","c","h">>,
     <<"t","e","r","m","i","n","a","t","i","o","n">>,
     <<"g","o","v","e","r","n","i","n","g">>,
     <<"e","n","f","o","r","c","e","a","b","l","e">> }

\* The shortest sentence length that is not reported is one more than this.
NoiseLen == 20

----------------------------------------------------------------------------
(* detect_risk_clauses: the body of the loop over one pattern's matches *)

\* The sentence around a match m = <<start, end>> of text_lower, cut out of
\* the original text with the offsets of text_lower.
sentence_of(text, m) ==
    LET dot   == rfind(text, ".", 0, m[1])
        start == IF dot + 1 > 0 THEN dot + 1 ELSE 0
        stop  == find(text, ".", m[2])
        end   == IF stop = -1 THEN Len(text) ELSE stop
    IN  strip(slice(text, start, end))

\* The comparison taken as "not shorter than".
at_least_noise(sentence) == Len(sentence) >= NoiseLen

\* "Only include meaningful sentences"
meaningful(sentence) == Len(sentence) > NoiseLen

\* The dict with severity and explanation of the first category.
first_category_finding(sentence, risk_info, by) ==
    [text        |-> sentence,
     type        |-> risk_info.type,
     severity    |-> Catalog[1].severity,
     explanation |-> Catalog[1].explanation,
     by          |-> by]

\* The dict appended for a sentence. The field by = <<category index,
\* pattern index>> is a history field: it records which pattern of the
\* catalog produced the finding and is no key of the code's dict.
finding(sentence, risk_info, by) ==
    [text        |-> sentence,
     type        |-> risk_info.type,
     severity    |-> risk_info.severity,
     explanation |-> risk_info.explanation,
     by          |-> by]

\* A sentence that is already reported is not reported again.
append_unless_reported(risks, f) ==
    IF \E i \in 1..Len(risks) : risks[i].text = f.text THEN risks
    ELSE Append(risks, f)

\* risks.insert(0, ...)
prepend_finding(risks, f) == <<f>> \o risks

\* risks.append(...)
append_finding(risks, f) == Append(risks, f)

\* The loop without its break.
never_breaks == FALSE

\* "break  # Only one match per pattern per risk type"
breaks_after_append == TRUE

\* for match in matches: ... from the k-th match on; the value of risks
\* when the loop over this pattern's matches ends.
RECURSIVE scan_matches(_, _, _, _, _, _)
scan_matches(risks, text, risk_info, by, matches, k) ==
    IF k > Len(matches) THEN risks
    ELSE LET sentence == sentence_of(text, matches[k])
         IN  IF meaningful(sentence)
             THEN LET appended == append_finding(risks, finding(sentence, risk_info, by))
                  IN  IF breaks_after_append THEN appended
                      ELSE scan_matches(appended, text, risk_info, by, matches, k + 1)
             ELSE scan_matches(risks, text, risk_info, by, matches, k + 1)

\* One pass of "for pattern in risk_info['patterns']": pattern pi of
\* category ci of the catalog.
scan_pattern(catalog, risks, text, text_lower, ci, pi) ==
    scan_matches(risks, text, catalog[ci], <<ci, pi>>,
                 finditer(catalog[ci].patterns[pi], text_lower), 1)

\* The loop position after pattern pi of category ci: the next pattern, or
\* the first pattern of the next category that has one.
RECURSIVE first_pattern_from(_, _)
first_pattern_from(catalog, ci) ==
    IF ci > Len(catalog) THEN <<ci, 1>>
    ELSE IF Len(catalog[ci].patterns) > 0 THEN <<ci, 1>>
    ELSE first_pattern_from(catalog, ci + 1)

next_pattern(catalog, ci, pi) ==
    IF pi < Len(catalog[ci].patterns) THEN <<ci, pi + 1>>
    ELSE first_pattern_from(catalog, ci + 1)

\* risks kept from the call before (a list that outlives the call).
stale_risks(left_over) == left_over

\* risks = []
fresh_risks(left_over) == <<>>

\* The whole loop from position at on, with risks so far.
RECURSIVE detect_loop(_, _, _, _, _)
detect_loop(catalog, text, text_lower, at, risks) ==
    IF at[1] > Len(catalog) THEN risks
    ELSE detect_loop(catalog, text, text_lower,
                     next_pattern(catalog, at[1], at[2]),
                     scan_pattern(catalog, risks, text, text_lower, at[1], at[2]))

\* detect_risk_clauses(text), run on its own from entry to return.
detect_risk_clauses(text) ==
    detect_loop(Catalog, text, lower(text), first_pattern_from(Catalog, 1),
                fresh_risks(<<>>))

----------------------------------------------------------------------------
(* calculate_complexity_score *)

Returned(v) == [pc |-> "returned", value |-> v]

Raised(e) == [pc |-> "raised", value |-> e]

SentenceEnds == {".", "!", "?"}

\* The guard left out.
never_guarded(sentences) == FALSE

\* "if not sentences"
no_sentences(sentences) == Len(sentences) = 0

\* len(sentences) / len(words): the operands of the division exchanged.
sentences_per_word(words, sentences) == Frac(Len(sentences), Len(words))

\* avg_words_per_sentence = len(words) / len(sentences)
avg_words_per_sentence(words, sentences) == Frac(Len(words), Len(sentences))

\* avg_words_per_sentence / 15 without the cap.
unbounded_sentence_complexity(avg) == FMul(avg, Frac(1, 15))

\* sentence_complexity = min(avg_words_per_sentence / 15, 2.0)
sentence_complexity(avg) == FMin(FMul(avg, Frac(1, 15)), Frac(2, 1))

\* term_complexity = min(legal_density / 2, 2.0)
term_complexity(legal_density) == FMin(FMul(legal_density, Frac(1, 2)), Frac(2, 1))

calculate_complexity_score(text) ==
    LET words     == split(text)
        sentences == NonEmpty(strip_each(pieces_between(text, SentenceEnds)))
    IN  IF no_sentences(sentences) THEN Returned(Frac(1, 1))
        ELSE IF Len(sentences) = 0 THEN Raised("ZeroDivisionError")
        ELSE
        LET avg == avg_words_per_sentence(words, sentences)
            legal_term_count ==
                Cardinality({i \in 1..Len(words) : lower(words[i]) \in legal_terms})
            legal_density ==
                IF Len(words) # 0 THEN Frac(legal_term_count * 100, Len(words))
                ELSE Frac(0, 1)
        IN  Returned(FMin(FMul(FAdd(sentence_complexity(avg),
                                    term_complexity(legal_density)),
                               Frac(5, 2)),
                          Frac(10, 1)))

----------------------------------------------------------------------------
(* calculate_risk_score *)

\* The weights of High and Low taken for one another.
swapped_weight(clause) ==
    IF clause.severity = "High" THEN 1
    ELSE IF clause.severity = "Medium" THEN 2
    ELSE 3

\* if clause["severity"] == "High" ... elif ... "Medium" ... else
severity_weight(clause) ==
    IF clause.severity = "High" THEN 3
    ELSE IF clause.severity = "Medium" THEN 2
    ELSE 1

\* for clause in risk_clauses: clause_risk += ...
RECURSIVE sum_clauses(_, _, _)
sum_clauses(risk_clauses, k, clause_risk) ==
    IF k > Len(risk_clauses) THEN clause_risk
    ELSE sum_clauses(risk_clauses, k + 1,
                     clause_risk + severity_weight(risk_clauses[k]))

\* The sum returned as it is.
uncapped(score) == score

\* The last line: min(..., 10.0)
capped(score) == FMin(score, Frac(10, 1))

calculate_risk_score(risk_clauses, complexity, word_count) ==
    LET clause_risk       == sum_clauses(risk_clauses, 1, 0)
        length_factor     == FMin(Frac(word_count, 1000), Frac(2, 1))
        complexity_factor == FMul(complexity, Frac(1, 10))
    IN  capped(FAdd(FAdd(FMul(Frac(clause_risk, 1), Frac(6, 10)),
                         FMul(length_factor, Frac(2, 10))),
                    FMul(complexity_factor, Frac(2, 10))))

----------------------------------------------------------------------------
(* The inputs the calls are given *)

Dot == <<".">>

Gap == <<" ", "\n">>

\* "a non-refundable fee": 20 characters
ShortFee == <<"a"," ","n","o","n","-","r","e","f","u","n","d","a","b","l","e"," ","f","e","e">>

\* "ALL FEES ARE FINAL, NON-REFUNDABLE": 34 characters
LongFees == <<"A","L","L"," ","F","E","E","S"," ","A","R","E"," ","F","I","N","A","L",","," ",
              "N","O","N","-","R","E","F","U","N","D","A","B","L","E">>

\* "binding arbitration": 19 characters
Arbitration == <<"b","i","n","d","i","n","g"," ","a","r","b","i","t","r","a","t","i","o","n">>

\* A run of U+0130
Dotted == [i \in 1..DottedRun |-> "I_dot"]

Segments == {Dot, Gap, ShortFee, LongFees, Arbitration, Dotted}

RECURSIVE concat(_)
concat(q) == IF q = <<>> THEN <<>> ELSE Head(q) \o concat(Tail(q))

SegTexts == {concat(q) : q \in UNION {[1..n -> Segments] : n \in 0..MaxSegs}}

\* "This agreement contains binding arbitration clauses"
ArbitrationSentence ==
    <<"T","h","i","s"," ","a","g","r","e","e","m","e","n","t"," ","c","o","n","t","a","i","n","s"," ",
      "b","i","n","d","i","n","g"," ","a","r","b","i","t","r","a","t","i","o","n"," ",
      "c","l","a","u","s","e","s">>

\* "All payments are non-refundable under any circumstances"
RefundSentence ==
    <<"A","l","l"," ","p","a","y","m","e","n","t","s"," ","a","r","e"," ",
      "n","o","n","-","r","e","f","u","n","d","a","b","l","e"," ","u","n","d","e","r"," ","a","n","y"," ",
      "c","i","r","c","u","m","s","t","a","n","c","e","s">>

\* The detection scenario of the tests.
SampleText == ArbitrationSentence \o <<".", " ">> \o RefundSentence \o Dot

\* "This is a simple contract. It has short sentences."
SimpleText ==
    <<"T","h","i","s"," ","i","s"," ","a"," ","s","i","m","p","l","e"," ","c","o","n","t","r","a","c","t","."," ",
      "I","t"," ","h","a","s"," ","s","h","o","r","t"," ","s","e","n","t","e","n","c","e","s",".">>

\* "Payment is not refunded. No refund": payments?.*not.*refund matches
\* across the full stop.
StarText ==
    <<"P","a","y","m","e","n","t"," ","i","s"," ","n","o","t"," ","r","e","f","u","n","d","e","d","."," ",
      "N","o"," ","r","e","f","u","n","d">>

\* Sentence ends and whitespace only.
PunctText == <<"!", "?", ".", " ", "\n", ".">>

\* Both phrases of the detection scenario in long sentences, the arbitration
\* sentence starting with a run of U+0130, and a short last fragment.
ShiftedText ==
    RefundSentence \o <<".", " ">> \o Dotted \o Arbitration \o <<".", " ", "o", "k">>

\* The arbitration phrase after the dotted run, then the refund sentence.
MisplacedText ==
    Dotted \o Arbitration \o <<".", " ">> \o RefundSentence \o Dot

Scenarios == {SampleText, SimpleText, StarText, PunctText, ShiftedText, MisplacedText}

\* n copies of the word w, one after the other.
Repeat(w, n) == [i \in 1..(n * Len(w)) |-> w[((i - 1) % Len(w)) + 1]]

\* A word that is no legal term, and one that is, each with its blank.
Filler == <<"a", " ">>

Jargon == <<"h","e","r","e","b","y"," ">>

\* One-sentence texts of up to two legal terms and a run of plain words:
\* averages on both sides of 30 words, densities on both sides of 4 percent.
WordRuns == {24, 28, 29, 48, 49}

RunTexts == {Repeat(Jargon, j) \o Repeat(Filler, n) : j \in 0..2, n \in WordRuns}

Texts == SegTexts \cup Scenarios \cup RunTexts

Clauses == {[severity |-> s] : s \in Severities}

FindingSeqs(n) == UNION {[1..k -> Clauses] : k \in 0..n}

Complexities == {Frac(3, 4), Frac(3, 1), Frac(8, 1)}

WordCounts == {0, 500, 2000, 3000}

\* The inputs of the threads that run side by side.
ParTexts == {<<>>, ShortFee, Arbitration \o ShortFee}

ParFindings == FindingSeqs(1)

ParComplexities == {Frac(3, 1), Frac(8, 1)}

ParWordCounts == {500, 2000}

----------------------------------------------------------------------------
(* State: the catalog and one call frame per thread *)

\* Python's None, and an attribute that was never assigned (reading it
\* raises AttributeError); both differ from every text.
None == <<"None">>

Missing == <<"AttributeError">>

\* DocumentAnalyzer.__init__: the model is created and current_document_text
\* set to None, or the constructor of the model raised and only model = None
\* was assigned.
Initialized == [model |-> "GenerativeModel", current_document_text |-> None]

InitFailed == [model |-> "None", current_document_text |-> Missing]

NoResponse == [success |-> FALSE, error |-> "", body |-> None]

\* A request thread that handles no request. The fields before, after,
\* passed_at_check and passed_at_answer are history: the analyzer's document
\* before and after analyze_document's length check, and the last text that
\* passed a check when /ask looked at the document and when it answered.
NoRequest ==
    [route |-> "none", pc |-> "idle", ext |-> "", text |-> None,
     question |-> None, invoked |-> {}, raised |-> <<>>,
     response |-> NoResponse, before |-> None, after |-> None,
     passed_at_check |-> None, passed_at_answer |-> None]

\* History: no analysis has passed the length check yet. text is the text
\* of the last analysis that passed it, rejected_since tells that a later
\* analysis was rejected as too short, failed that the analysis of text ended
\* in an error after the check.
NoPass == [text |-> None, rejected_since |-> FALSE, failed |-> FALSE]

\* No request is being handled by any of the threads.
Quiet(threads) ==
    /\ analyzer = Initialized
    /\ request = [t \in threads |-> NoRequest]
    /\ last_passed = NoPass

Idle ==
    [op |-> "none", pc |-> "idle", text |-> <<>>, text_lower |-> <<>>,
     at |-> <<0, 0>>, risks |-> <<>>, args |-> <<>>, value |-> <<>>]

\* The catalog with one severity written in lower case.
InitMisspelt ==
    /\ RISK_PATTERNS = [Catalog EXCEPT ![5].severity = "medium"]
    /\ frame = [t \in {1} |-> Idle]
    /\ Quiet({1})

Init ==
    /\ RISK_PATTERNS = Catalog
    /\ frame = [t \in {1} |-> Idle]
    /\ Quiet({1})

InitPar ==
    /\ RISK_PATTERNS = Catalog
    /\ frame = [t \in {1, 2} |-> Idle]
    /\ Quiet({1})

\* No call of thread t is running.
AtRest(t) == frame[t].pc \in {"idle", "returned", "raised"}

\* detect_risk_clauses(text) is entered: risks = [], text_lower = text.lower()
CallDetect(t, text) ==
    /\ AtRest(t)
    /\ frame' = [frame EXCEPT ![t] =
                    [op |-> "detect", pc |-> "loop", text |-> text,
                     text_lower |-> lower(text),
                     at |-> first_pattern_from(RISK_PATTERNS, 1),
                     risks |-> fresh_risks(frame[t].risks),
                     args |-> <<>>, value |-> <<>>]]
    /\ UNCHANGED <<RISK_PATTERNS, analyzer, request, last_passed>>

\* One pass of the loop over the patterns.
DetectStep(t) ==
    /\ frame[t].pc = "loop"
    /\ frame[t].at[1] <= Len(RISK_PATTERNS)
    /\ LET f == frame[t]
       IN  frame' = [frame EXCEPT ![t] =
                        [f EXCEPT
                           !.risks = scan_pattern(RISK_PATTERNS, f.risks, f.text,
                                                  f.text_lower, f.at[1], f.at[2]),
                           !.at = next_pattern(RISK_PATTERNS, f.at[1], f.at[2])]]
    /\ UNCHANGED <<RISK_PATTERNS, analyzer, request, last_passed>>

\* return risks
DetectReturn(t) ==
    /\ frame[t].pc = "loop"
    /\ frame[t].at[1] > Len(RISK_PATTERNS)
    /\ frame' = [frame EXCEPT ![t] =
                    [frame[t] EXCEPT !.pc = "returned", !.value = frame[t].risks]]
    /\ UNCHANGED <<RISK_PATTERNS, analyzer, request, last_passed>>

\* calculate_complexity_score(text), from entry to return or raise.
CallComplexity(t, text) ==
    /\ AtRest(t)
    /\ LET r == calculate_complexity_score(text)
       IN  frame' = [frame EXCEPT ![t] =
                        [Idle EXCEPT !.op = "complexity", !.pc = r.pc,
                                     !.text = text, !.value = r.value]]
    /\ UNCHANGED <<RISK_PATTERNS, analyzer, request, last_passed>>

\* calculate_risk_score(risk_clauses, complexity, word_count), entry to return.
CallRiskScore(t, risk_clauses, complexity, word_count) ==
    /\ AtRest(t)
    /\ frame' = [frame EXCEPT ![t] =
                    [Idle EXCEPT
                       !.op = "risk", !.pc = "returned",
                       !.args = <<risk_clauses, complexity, word_count>>,
                       !.value = calculate_risk_score(risk_clauses, complexity,
                                                      word_count)]]
    /\ UNCHANGED <<RISK_PATTERNS, analyzer, request, last_passed>>

\* The inputs of calculate_risk_score in the one-thread specification.
ScoreFindings == FindingSeqs(MaxFindings)

\* A thread that has made no call yet.
Fresh(t) == frame[t].pc = "idle"

\* One thread, one call on any input.
Next ==
    \/ \E t \in DOMAIN frame : Fresh(t) /\ \E text \in Texts : CallDetect(t, text)
    \/ \E t \in DOMAIN frame : DetectStep(t)
    \/ \E t \in DOMAIN frame : DetectReturn(t)
    \/ \E t \in DOMAIN frame : Fresh(t) /\ \E text \in Texts : CallComplexity(t, text)
    \/ \E t \in DOMAIN frame :
          Fresh(t) /\ \E rc \in ScoreFindings, c \in Complexities, wc \in WordCounts :
                          CallRiskScore(t, rc, c, wc)

Spec == Init /\ [][Next]_vars

\* Two threads, each making call after call, interleaved at the loop's passes.
NextPar ==
    \/ \E t \in DOMAIN frame, text \in ParTexts : CallDetect(t, text)
    \/ \E t \in DOMAIN frame : DetectStep(t)
    \/ \E t \in DOMAIN frame : DetectReturn(t)
    \/ \E t \in DOMAIN frame, text \in ParTexts : CallComplexity(t, text)
    \/ \E t \in DOMAIN frame, rc \in ParFindings, c \in ParComplexities,
          wc \in ParWordCounts : CallRiskScore(t, rc, c, wc)

SpecPar == InitPar /\ [][NextPar]_vars

----------------------------------------------------------------------------
(* The analyzer and the request handlers *)

\* "len(text.strip()) < 50"
MinChars == 50

\* "{document_text[:4000]}"
PromptChars == 4000

\* "text[:1000] + '...' if len(text) > 1000 else text"
ExcerptChars == 1000

\* Documents around the length check: empty, blank, 49 characters between
\* blanks, 50 characters after a blank, and a whole sentence.
ShortDoc == Gap \o SubSeq(RefundSentence, 1, MinChars - 1) \o Gap

EdgeDoc == Gap \o SubSeq(RefundSentence, 1, MinChars)

FullDoc == RefundSentence \o Dot

Documents == {<<>>, Gap, ShortDoc, EdgeDoc, FullDoc}

\* What a file yields when it cannot be read as a PDF or sent to the model.
Unreadable == <<"Unreadable">>

\* The uploads: ext "absent" is a request without a file part, ext "" a file
\* part with an empty filename; content is what the file holds (for a PDF
\* what its pages yield, for an image what the model reads in it).
Uploads ==
    {[ext |-> e, content |-> <<>>] : e \in {"absent", "", ".exe"}}
      \cup {[ext |-> e, content |-> c] : e \in {".txt", ".pdf", ".png"}, c \in Documents}
      \cup {[ext |-> e, content |-> Unreadable] : e \in {".pdf", ".png"}}

\* The question of an /ask request; None is a request without a JSON body.
Questions == {None, <<>>, <<" ">>, <<"w","h","y","?">>, <<" ","w","h","o","?","\n">>}

\* The calls of the model that fail while a request is handled.
Outages == {{}, {"simplify_text"},
            {"generate_summary", "simplify_text", "extract_key_terms", "answer_question"}}

\* The early returns of the /analyze handler; "" when the file is accepted.
validate(upload) ==
    IF upload.ext = "absent" THEN "No file uploaded"
    ELSE IF upload.ext = "" THEN "No file selected"
    ELSE IF upload.ext \notin {".pdf", ".jpg", ".jpeg", ".png", ".txt"}
    THEN "Unsupported file type"
    ELSE ""

\* extract_text_from_pdf, extract_text_from_image or f.read(), by file type.
extract_text(upload, model) ==
    IF upload.ext = ".pdf"
    THEN IF upload.content = Unreadable
         THEN Raised(<<"Could not extract text from PDF">>)
         ELSE Returned(strip(upload.content))
    ELSE IF upload.ext \in {".jpg", ".jpeg", ".png"}
    THEN IF model = "None" \/ upload.content = Unreadable
         THEN Raised(<<"Could not extract text from image">>)
         ELSE Returned(upload.content)
    ELSE Returned(upload.content)

\* The length taken before the trimming.
too_short_untrimmed(text) == text = <<>> \/ Len(text) < MinChars

\* "if not text or len(text.strip()) < 50"
too_short(text) == text = <<>> \/ Len(strip(text)) < MinChars

\* The assignment made before the check.
document_assigned_first(current, text) == text

\* "self.current_document_text = text", which the raise above it skips.
document_after_check(current, text) == IF too_short(text) THEN current ELSE text

\* The exception analyze_document raises for the exception e it caught.
AnalysisFailed(e) == <<"Analysis failed">> \o e

TooShortError == <<"Document appears to be empty or too short to analyze">>

\* generate_summary, simplify_text, extract_key_terms and answer_question:
\* the fixed text without a model, the fixed text when the call of the model
\* fails, else what the model generates for the prompt.
ask_model(name, model, outage, prompt) ==
    IF model = "None" THEN [said |-> "unavailable", prompt |-> None]
    ELSE IF name \in outage THEN [said |-> "error", prompt |-> prompt]
    ELSE [said |-> "generated", prompt |-> prompt]

\* The response of a handler.
Failure(error) == [success |-> FALSE, error |-> error, body |-> None]

Success(body) == [success |-> TRUE, error |-> "", body |-> body]

\* No handler of thread t is running.
Waiting(t) == request[t].pc \in {"idle", "responded"}

\* POST /analyze, up to the assignment of current_document_text: the
\* handler's early returns, the extraction and the length check.
Analyze(t, upload, removable) ==
    /\ Waiting(t)
    /\ LET rejected == validate(upload)
           extracted == extract_text(upload, analyzer.model)
           r == [NoRequest EXCEPT !.route = "analyze", !.ext = upload.ext,
                                  !.before = analyzer.current_document_text]
       IN  IF rejected # ""
           THEN /\ request' = [request EXCEPT ![t] =
                      [r EXCEPT !.pc = "responded", !.response = Failure(rejected),
                                !.after = analyzer.current_document_text]]
                /\ UNCHANGED <<analyzer, last_passed>>
           ELSE IF extracted.pc = "raised"
           THEN /\ request' = [request EXCEPT ![t] =
                      [r EXCEPT !.pc = "responded",
                                !.raised = AnalysisFailed(extracted.value),
                                !.response = Failure(IF removable THEN "Analysis failed"
                                                     ELSE "OSError"),
                                !.after = analyzer.current_document_text]]
                /\ UNCHANGED <<analyzer, last_passed>>
           ELSE LET text == extracted.value
                    kept == document_after_check(analyzer.current_document_text, text)
                IN  /\ analyzer' = [analyzer EXCEPT !.current_document_text = kept]
                    /\ last_passed' =
                          IF text # <<>> /\ Len(strip(text)) >= MinChars
                          THEN [NoPass EXCEPT !.text = text]
                          ELSE [last_passed EXCEPT !.rejected_since = TRUE]
                    /\ request' = [request EXCEPT ![t] =
                          IF too_short(text)
                          THEN [r EXCEPT !.pc = "responded", !.text = text,
                                         !.raised = AnalysisFailed(TooShortError),
                                         !.response = Failure(IF removable
                                                              THEN "Analysis failed"
                                                              ELSE "OSError"),
                                         !.after = kept]
                          ELSE [r EXCEPT !.pc = "analysing", !.text = text,
                                         !.after = kept]]
    /\ UNCHANGED <<RISK_PATTERNS, frame>>

\* The texts the uploads yield, and for each the part of the analysis that
\* the text alone decides: word_count, the two scores and the findings.
ExtractedTexts ==
    {extract_text(u, "GenerativeModel").value :
        u \in {v \in Uploads : /\ validate(v) = ""
                               /\ extract_text(v, "GenerativeModel").pc = "returned"}}

perform_analysis ==
    [text \in ExtractedTexts |->
        LET word_count   == Len(split(text))
            complexity   == calculate_complexity_score(text)
            risk_clauses == detect_risk_clauses(text)
        IN  [raised |-> complexity.pc = "raised",
             word_count |-> word_count,
             complexity_score |-> complexity.value,
             risk_clauses |-> risk_clauses,
             risk_score |-> IF complexity.pc = "raised" THEN None
                            ELSE calculate_risk_score(risk_clauses, complexity.value,
                                                      word_count)]]

\* The rest of analyze_document and of the handler: the scores, the findings,
\* the three calls of the model, the removal of the file and the response.
AnalyzeFinish(t, outage, removable) ==
    /\ request[t].pc = "analysing"
    /\ LET text == request[t].text
           core == perform_analysis[text]
           said(name) == ask_model(name, analyzer.model, outage, None).said
           analysis ==
               [word_count |-> core.word_count,
                complexity_score |-> core.complexity_score,
                risk_clauses |-> core.risk_clauses,
                risk_score |-> core.risk_score,
                summary |-> said("generate_summary"),
                simplified_text |-> said("simplify_text"),
                key_terms |-> said("extract_key_terms"),
                original_text |-> IF Len(text) > ExcerptChars
                                  THEN slice(text, 0, ExcerptChars) \o <<".", ".", ".">>
                                  ELSE text]
       IN  request' = [request EXCEPT ![t] =
              IF core.raised
              THEN [@ EXCEPT !.pc = "responded",
                             !.invoked = {"calculate_complexity_score"},
                             !.raised = AnalysisFailed(<<core.complexity_score>>),
                             !.response = Failure(IF removable THEN "Analysis failed"
                                                  ELSE "OSError")]
              ELSE [@ EXCEPT !.pc = "responded",
                             !.invoked = {"calculate_complexity_score",
                                          "detect_risk_clauses", "calculate_risk_score",
                                          "generate_summary", "simplify_text",
                                          "extract_key_terms"},
                             !.response = IF removable THEN Success(analysis)
                                          ELSE Failure("OSError")]]
    /\ last_passed' =
          IF perform_analysis[request[t].text].raised \/ ~removable
          THEN [last_passed EXCEPT !.failed = TRUE]
          ELSE last_passed
    /\ UNCHANGED <<RISK_PATTERNS, frame, analyzer>>

\* POST /ask, up to the check of current_document_text.
Ask(t, question) ==
    /\ Waiting(t)
    /\ LET r == [NoRequest EXCEPT !.route = "ask", !.question = question,
                                  !.passed_at_check = last_passed.text]
           document == analyzer.current_document_text
       IN  request' = [request EXCEPT ![t] =
              IF question = None
              THEN [r EXCEPT !.pc = "responded", !.response = Failure("AttributeError")]
              ELSE IF strip(question) = <<>>
              THEN [r EXCEPT !.pc = "responded",
                             !.response = Failure("No question provided")]
              ELSE IF document = Missing
              THEN [r EXCEPT !.pc = "responded", !.question = strip(question),
                             !.response = Failure("AttributeError")]
              ELSE IF document = None \/ document = <<>>
              THEN [r EXCEPT !.pc = "responded", !.question = strip(question),
                             !.response = Failure("No document analyzed yet")]
              ELSE [r EXCEPT !.pc = "answering", !.question = strip(question)]]
    /\ UNCHANGED <<RISK_PATTERNS, frame, analyzer, last_passed>>

\* The rest of /ask: answer_question on the document as it is now.
Answer(t, outage) ==
    /\ request[t].pc = "answering"
    /\ LET prompt == [question |-> request[t].question,
                      document |-> slice(analyzer.current_document_text, 0, PromptChars)]
       IN  request' = [request EXCEPT ![t] =
              [@ EXCEPT !.pc = "responded",
                        !.invoked = {"answer_question"},
                        !.passed_at_answer = last_passed.text,
                        !.response = Success(ask_model("answer_question", analyzer.model,
                                                       outage, prompt))]]
    /\ UNCHANGED <<RISK_PATTERNS, frame, analyzer, last_passed>>

\* The server after "analyzer = DocumentAnalyzer()", handling one request at
\* a time.
InitApp ==
    /\ RISK_PATTERNS = Catalog
    /\ frame = [t \in {1} |-> Idle]
    /\ analyzer \in {Initialized, InitFailed}
    /\ request = [t \in {1} |-> NoRequest]
    /\ last_passed = NoPass

\* Request after request, each handled before the next arrives.
NextApp ==
    \/ \E t \in DOMAIN request, upload \in Uploads, removable \in BOOLEAN :
          Analyze(t, upload, removable)
    \/ \E t \in DOMAIN request, outage \in Outages, removable \in BOOLEAN :
          AnalyzeFinish(t, outage, removable)
    \/ \E t \in DOMAIN request, question \in Questions : Ask(t, question)
    \/ \E t \in DOMAIN request, outage \in Outages : Answer(t, outage)

SpecApp == InitApp /\ [][NextApp]_vars

----------------------------------------------------------------------------
(* Properties *)

Threads == DOMAIN frame

\* Thread t's call of op has returned.
Done(t, op) == frame[t].op = op /\ frame[t].pc = "returned"

One == Frac(1, 1)

Ten == Frac(10, 1)

\* The severity-weight sum of a findings sequence, by counting.
WeightSum(rc) ==
      3 * Cardinality({i \in 1..Len(rc) : rc[i].severity = "High"})
    + 2 * Cardinality({i \in 1..Len(rc) : rc[i].severity = "Medium"})
    + Cardinality({i \in 1..Len(rc) : rc[i].severity = "Low"})

\* The uncapped risk formula as the fraction num / den:
\* 0.6 * cr + 0.2 * min(wc / 1000, 2.0) + 0.2 * (c / 10) over den = 10000 * c[2].
FormulaNum(rc, c, wc) ==
    6000 * WeightSum(rc) * c[2]
      + 2 * (IF wc > 2000 THEN 2000 ELSE wc) * c[2]
      + 200 * c[1]

FormulaDen(c) == 10000 * c[2]

\* C1: every value calculate_complexity_score returns lies in [1.0, 10.0].
C1_ComplexityInRange ==
    \A t \in Threads :
        Done(t, "complexity") =>
            FLe(One, frame[t].value) /\ FLe(frame[t].value, Ten)

\* C2: every value calculate_risk_score returns lies in [1.0, 10.0], also
\* for an empty findings sequence.
C2_RiskInRange ==
    \A t \in Threads :
        Done(t, "risk") => FLe(One, frame[t].value) /\ FLe(frame[t].value, Ten)

\* C3: calculate_risk_score returns min(0.6 * clause_risk + 0.2 * min(
\* word_count / 1000, 2.0) + 0.2 * (complexity / 10), 10.0), clause_risk the
\* sum of the weights High = 3, Medium = 2, Low = 1, and never more than 10.0.
C3_RiskFormula ==
    \A t \in Threads :
        Done(t, "risk") =>
            LET rc  == frame[t].args[1]
                c   == frame[t].args[2]
                wc  == frame[t].args[3]
                num == FormulaNum(rc, c, wc)
                den == FormulaDen(c)
                v   == frame[t].value
            IN  /\ FLe(v, Ten)
                /\ IF num > 10 * den THEN v = Ten
                   ELSE v[1] * den = num * v[2]

\* A call whose uncapped sum is above 10.0 has returned, and its findings are
\* of more than one severity.
C3_Witness ==
    \E t \in Threads :
        /\ Done(t, "risk")
        /\ FormulaNum(frame[t].args[1], frame[t].args[2], frame[t].args[3])
              > 10 * FormulaDen(frame[t].args[2])
        /\ Cardinality({frame[t].args[1][i].severity :
                           i \in 1..Len(frame[t].args[1])}) > 1
        /\ frame[t].value = Ten

\* The calls a returned call is compared with: every findings sequence of
\* up to MaxCompare findings, with its weight sum and its score.
ComparedCalls ==
    {[weight     |-> WeightSum(rc2),
      complexity |-> c2,
      word_count |-> wc2,
      score      |-> calculate_risk_score(rc2, c2, wc2)] :
        rc2 \in FindingSeqs(MaxCompare), c2 \in Complexities, wc2 \in WordCounts}

\* C10: adding one High finding never lowers the risk score, and findings
\* with a weight sum at least as large, with a complexity and a word count
\* at least as large, never get a smaller score.
C10_RiskMonotone ==
    \A t \in Threads :
        Done(t, "risk") =>
            LET rc == frame[t].args[1]
                c  == frame[t].args[2]
                wc == frame[t].args[3]
                v  == frame[t].value
            IN  /\ FLe(v, calculate_risk_score(Append(rc, [severity |-> "High"]),
                                               c, wc))
                /\ \A e \in ComparedCalls :
                      (e.weight >= WeightSum(rc) /\ FLe(c, e.complexity)
                          /\ wc <= e.word_count)
                          => FLe(v, e.score)

\* A call with findings has returned below the cap; one more High finding
\* scores strictly higher, and so does some shorter findings sequence with a
\* larger weight sum.
C10_Witness ==
    \E t \in Threads :
        /\ Done(t, "risk")
        /\ Len(frame[t].args[1]) > MaxCompare
        /\ FLt(frame[t].value, Ten)
        /\ FLt(frame[t].value,
               calculate_risk_score(Append(frame[t].args[1], [severity |-> "High"]),
                                    frame[t].args[2], frame[t].args[3]))
        /\ \E e \in ComparedCalls :
              /\ e.weight > WeightSum(frame[t].args[1])
              /\ e.complexity = frame[t].args[2]
              /\ e.word_count = frame[t].args[3]
              /\ FLt(frame[t].value, e.score)

\* The counts calculate_complexity_score works from: words, sentences and
\* words that are legal terms.
WordCount(text) == Len(split(text))

SentenceCount(text) == Len(NonEmpty(strip_each(pieces_between(text, SentenceEnds))))

LegalCount(text) ==
    LET words == split(text)
    IN  Cardinality({i \in 1..Len(words) : lower(words[i]) \in legal_terms})

\* What the function returns for each text of the model that has a sentence,
\* with the counts of the text.
ScoredTexts ==
    {[words |-> WordCount(text), sentences |-> SentenceCount(text),
      legal |-> LegalCount(text), score |-> calculate_complexity_score(text).value] :
        text \in {x \in Texts : SentenceCount(x) >= 1}}

\* C11: of two texts with a sentence each and the same legal-term density,
\* the one with the larger average of words per sentence never has the
\* smaller complexity score.
C11_ComplexityMonotone ==
    \A t \in Threads :
        (Done(t, "complexity") /\ SentenceCount(frame[t].text) >= 1) =>
            LET w == WordCount(frame[t].text)
                n == SentenceCount(frame[t].text)
                l == LegalCount(frame[t].text)
            IN  \A e \in ScoredTexts :
                    ( /\ e.legal * w = l * e.words
                      /\ e.words * n >= w * e.sentences )
                        => FLe(frame[t].value, e.score)

\* A score has been returned for a text, and a text of the same density and
\* a larger average of words per sentence has a strictly larger score.
C11_Witness ==
    \E t \in Threads :
        /\ Done(t, "complexity")
        /\ SentenceCount(frame[t].text) >= 1
        /\ LegalCount(frame[t].text) >= 1
        /\ \E e \in ScoredTexts :
              /\ e.legal * WordCount(frame[t].text)
                    = LegalCount(frame[t].text) * e.words
              /\ e.words * SentenceCount(frame[t].text)
                    > WordCount(frame[t].text) * e.sentences
              /\ FLt(frame[t].value, e.score)

\* The two capped sub-components, from the counts: <<numerator, denominator>>.
CappedSentencePart(w, n) == IF w >= 30 * n THEN <<2, 1>> ELSE <<w, 15 * n>>

CappedTermPart(l, w) == IF 100 * l >= 4 * w THEN <<2, 1>> ELSE <<50 * l, w>>

\* C13: the complexity score is exactly 10.0 if and only if the text has a
\* sentence, at least 30 words per sentence on average and a legal-term
\* density of at least 4 percent; the score is 2.5 times the sum of the two
\* sub-components, each capped at 2.0 before the multiplication.
C13_TenIffSaturated ==
    \A t \in Threads :
        Done(t, "complexity") =>
            LET w == WordCount(frame[t].text)
                n == SentenceCount(frame[t].text)
                l == LegalCount(frame[t].text)
                a == CappedSentencePart(w, n)
                b == CappedTermPart(l, w)
            IN  /\ frame[t].value = Ten
                      <=> (n >= 1 /\ w >= 30 * n /\ 100 * l >= 4 * w)
                /\ n >= 1 =>
                      frame[t].value
                          = Frac(5 * (a[1] * b[2] + b[1] * a[2]), 2 * a[2] * b[2])

\* A score of exactly 10.0 has been returned for a text whose average is
\* above 30 words per sentence and whose density is exactly 4 percent.
C13_Witness ==
    \E t \in Threads :
        /\ Done(t, "complexity")
        /\ frame[t].value = Ten
        /\ WordCount(frame[t].text) > 30 * SentenceCount(frame[t].text)
        /\ 100 * LegalCount(frame[t].text) = 4 * WordCount(frame[t].text)

\* The six categories and their severities as the specification lists them.
CanonicalCategories ==
    {<<"Binding Arbitration", "High">>, <<"Non-refundable", "Medium">>,
     <<"Auto-renewal", "Medium">>, <<"Liability Waiver", "High">>,
     <<"Data Collection", "Medium">>, <<"Unfair Termination", "High">>}

\* C12: every category of the catalog has a non-empty pattern list, a type,
\* an explanation and a severity among Low, Medium and High; the catalog
\* holds the six canonical categories with their severities.
C12_CatalogWellFormed ==
    /\ \A ci \in 1..Len(RISK_PATTERNS) :
          LET risk_info == RISK_PATTERNS[ci]
          IN  /\ {"patterns", "type", "severity", "explanation"}
                    \subseteq DOMAIN risk_info
              /\ Len(risk_info.patterns) > 0
              /\ \A pi \in 1..Len(risk_info.patterns) : Len(risk_info.patterns[pi]) > 0
              /\ risk_info.type # ""
              /\ risk_info.explanation # ""
              /\ risk_info.severity \in {"Low", "Medium", "High"}
    /\ Len(RISK_PATTERNS) = 6
    /\ {<<RISK_PATTERNS[ci].type, RISK_PATTERNS[ci].severity>> :
           ci \in 1..Len(RISK_PATTERNS)} = CanonicalCategories

\* A detection has gone through the whole catalog and returned findings of
\* a High and of a Medium category.
C12_Witness ==
    \E t \in Threads :
        /\ Done(t, "detect")
        /\ frame[t].at[1] > Len(RISK_PATTERNS)
        /\ \E i, j \in 1..Len(frame[t].value) :
              /\ frame[t].value[i].severity = "High"
              /\ frame[t].value[j].severity = "Medium"

\* The (category, pattern) pairs of the catalog.
Pairs ==
    UNION {{<<ci, pi>> : pi \in 1..Len(RISK_PATTERNS[ci].patterns)} :
              ci \in 1..Len(RISK_PATTERNS)}

\* The matches of the pattern of pair by in thread t's lowered text.
MatchesOf(t, by) ==
    finditer(RISK_PATTERNS[by[1]].patterns[by[2]], frame[t].text_lower)

\* The sentences the loop cuts out for the matches of pair by, in order.
SentencesOf(t, by) ==
    LET ms == MatchesOf(t, by)
    IN  [k \in 1..Len(ms) |-> sentence_of(frame[t].text, ms[k])]

\* The indices of the findings of thread t that pair by produced.
FindingsBy(t, by) ==
    {i \in 1..Len(frame[t].risks) : frame[t].risks[i].by = by}

\* C4: detect_risk_clauses emits at most one finding per (category, pattern)
\* pair, however often the pattern matches, so never more findings than the
\* catalog has patterns.
C4_AtMostOnePerPattern ==
    \A t \in Threads :
        frame[t].op = "detect" =>
            /\ \A by \in Pairs : Cardinality(FindingsBy(t, by)) <= 1
            /\ Len(frame[t].risks) <= Cardinality(Pairs)

\* A detection has returned in which one pattern matched at least twice in
\* sentences longer than 20 characters and has exactly one finding.
C4_Witness ==
    \E t \in Threads :
        /\ Done(t, "detect")
        /\ \E by \in Pairs :
              /\ Cardinality(FindingsBy(t, by)) = 1
              /\ LET ss == SentencesOf(t, by)
                 IN  Cardinality({k \in 1..Len(ss) : Len(ss[k]) > 20}) >= 2

CategoryOf(type) ==
    CHOOSE ci \in 1..Len(RISK_PATTERNS) : RISK_PATTERNS[ci].type = type

\* C6: the findings are in catalog order of their category and, within one
\* category, in the order of the producing patterns in its pattern list.
C6_CatalogOrder ==
    \A t \in Threads :
        frame[t].op = "detect" =>
            \A i, j \in 1..Len(frame[t].risks) :
                i < j =>
                    LET a == frame[t].risks[i]
                        b == frame[t].risks[j]
                    IN  /\ CategoryOf(a.type) <= CategoryOf(b.type)
                        /\ \/ a.by[1] < b.by[1]
                           \/ a.by[1] = b.by[1] /\ a.by[2] < b.by[2]

\* A detection has returned with findings of two categories and two findings
\* of one category, the earlier category's phrase standing later in the text.
C6_Witness ==
    \E t \in Threads :
        /\ Done(t, "detect")
        /\ \E i, j \in 1..Len(frame[t].value) :
              /\ i < j
              /\ frame[t].value[i].by[1] = frame[t].value[j].by[1]
        /\ \E i, j \in 1..Len(frame[t].value) :
              /\ i < j
              /\ frame[t].value[i].by[1] < frame[t].value[j].by[1]
              /\ MatchesOf(t, frame[t].value[j].by)[1][1]
                    < MatchesOf(t, frame[t].value[i].by)[1][1]

\* The offsets at which phrase stands in text.
Occurs(text, phrase) ==
    {i \in 0..(Len(text) - Len(phrase)) :
        SubSeq(text, i + 1, i + Len(phrase)) = phrase}

\* phrase stands in text inside a sentence (the stretch between the full
\* stops around it, trimmed) longer than 20 characters.
InLongSentence(text, phrase) ==
    \E i \in Occurs(text, phrase) :
        Len(sentence_of(text, <<i, i + Len(phrase)>>)) > 20

\* Every finding has the type, severity and explanation of the category
\* whose pattern matched.
FieldsOfOwner(t) ==
    \A i \in 1..Len(frame[t].risks) :
        LET f    == frame[t].risks[i]
            info == RISK_PATTERNS[f.by[1]]
        IN  /\ f.type = info.type
            /\ f.severity = info.severity
            /\ f.explanation = info.explanation
            /\ MatchesOf(t, f.by) # <<>>

\* C7: every finding has the type, severity and explanation of the category
\* that owns the pattern which matched; a text with 'binding arbitration' and
\* 'non-refundable', each inside a sentence longer than 20 characters, yields
\* a Binding Arbitration / High and a Non-refundable / Medium finding.
C7_FieldsAndScenario ==
    \A t \in Threads :
        frame[t].op = "detect" =>
            /\ FieldsOfOwner(t)
            /\ ( /\ frame[t].pc = "returned"
                 /\ InLongSentence(frame[t].text, Catalog[1].patterns[1])
                 /\ InLongSentence(frame[t].text, Catalog[2].patterns[1]) )
               => /\ \E i \in 1..Len(frame[t].value) :
                        /\ frame[t].value[i].type = "Binding Arbitration"
                        /\ frame[t].value[i].severity = "High"
                  /\ \E i \in 1..Len(frame[t].value) :
                        /\ frame[t].value[i].type = "Non-refundable"
                        /\ frame[t].value[i].severity = "Medium"

\* The offsets of the full stops of text before offset i, and from i on.
StopsBefore(text, i) == {j \in 0..(i - 1) : j < Len(text) /\ text[j + 1] = "."}

StopsFrom(text, i) == {j \in i..(Len(text) - 1) : text[j + 1] = "."}

\* The stretch of text around the span m = <<start, end>>: from just after
\* the nearest full stop before the span's start (or the start of the text)
\* to just before the nearest full stop at or after its end (or the end of
\* the text), trimmed.
StretchAround(text, m) ==
    LET from == IF StopsBefore(text, m[1]) = {} THEN 0
                ELSE MaxOf(StopsBefore(text, m[1])) + 1
        to   == IF StopsFrom(text, m[2]) = {} THEN Len(text)
                ELSE MinOf(StopsFrom(text, m[2]))
    IN  strip(SubSeq(text, from + 1, to))

\* C14: every finding's sentence is the trimmed stretch of the original text
\* between the full stops around a match of its pattern, and that stretch
\* contains the whole matched span.
C14_SentenceAroundMatch ==
    \A t \in Threads :
        frame[t].op = "detect" =>
            \A i \in 1..Len(frame[t].risks) :
                LET f  == frame[t].risks[i]
                    ms == MatchesOf(t, f.by)
                IN  \E k \in 1..Len(ms) :
                        /\ f.text = StretchAround(frame[t].text, ms[k])
                        /\ Occurs(lower(f.text),
                                  SubSeq(frame[t].text_lower, ms[k][1] + 1, ms[k][2]))
                              # {}

\* The stretches around the matches of pair by in thread t's text, in the
\* order of the matches, and the places of those longer than 20 characters.
StretchesOf(t, by) ==
    LET ms == MatchesOf(t, by)
    IN  [k \in 1..Len(ms) |-> StretchAround(frame[t].text, ms[k])]

LongStretches(t, by) ==
    {k \in 1..Len(StretchesOf(t, by)) : Len(StretchesOf(t, by)[k]) > 20}

NoMatch(text) ==
    \A ci \in 1..Len(Catalog) :
        \A pi \in 1..Len(Catalog[ci].patterns) :
            finditer(Catalog[ci].patterns[pi], lower(text)) = <<>>

\* The text holds nothing but whitespace and sentence ends.
NoSentence(text) ==
    \A i \in 1..Len(text) : text[i] \in Whitespace \cup SentenceEnds

\* C8: detect_risk_clauses and calculate_complexity_score never raise; a text
\* that no pattern matches yields no finding, and a text without a sentence
\* yields complexity exactly 1.0.
C8_NoError ==
    \A t \in Threads :
        /\ frame[t].op \in {"detect", "complexity"} => frame[t].pc # "raised"
        /\ (Done(t, "detect") /\ NoMatch(frame[t].text)) => frame[t].value = <<>>
        /\ (frame[t].op = "complexity" /\ NoSentence(frame[t].text))
              => frame[t].pc = "returned" /\ frame[t].value = One

\* calculate_complexity_score has returned 1.0 for a text of sentence ends
\* and whitespace only.
C8_Witness ==
    \E t \in Threads :
        /\ Done(t, "complexity")
        /\ NoSentence(frame[t].text)
        /\ \E i \in 1..Len(frame[t].text) : frame[t].text[i] \in SentenceEnds
        /\ \E i \in 1..Len(frame[t].text) : frame[t].text[i] \in Whitespace
        /\ frame[t].value = One

\* C9: whatever the threads' calls and their interleaving, the catalog stays
\* as it was defined and every call returns what the same call returns when
\* run on its own; two detections of the same text return the same findings.
C9_Pure ==
    /\ RISK_PATTERNS = Catalog
    /\ \A t \in Threads :
          /\ Done(t, "detect") => frame[t].value = detect_risk_clauses(frame[t].text)
          /\ (frame[t].op = "complexity" /\ AtRest(t)) =>
                [pc |-> frame[t].pc, value |-> frame[t].value]
                    = calculate_complexity_score(frame[t].text)
          /\ Done(t, "risk") =>
                frame[t].value = calculate_risk_score(frame[t].args[1],
                                                      frame[t].args[2],
                                                      frame[t].args[3])
    /\ \A t, u \in Threads :
          (Done(t, "detect") /\ Done(u, "detect") /\ frame[t].text = frame[u].text)
              => frame[t].value = frame[u].value

\* Two threads have each returned findings for the same text.
C9_Witness ==
    \E t, u \in Threads :
        /\ t # u
        /\ Done(t, "detect") /\ Done(u, "detect")
        /\ frame[t].text = frame[u].text
        /\ Len(frame[t].value) >= 2
        /\ frame[t].value = frame[u].value

\* The extracted text of thread t's request fails the length check.
FailsLengthCheck(t) ==
    /\ request[t].text # None
    /\ \/ request[t].text = <<>>
       \/ Len(strip(request[t].text)) < 50

\* C16: an analysis whose extracted text is empty or has fewer than 50
\* characters after trimming ends in the error 'Analysis failed: Document
\* appears to be empty or too short to analyze' without the detector, the
\* scorers or the model being called, leaves current_document_text as it
\* was, and /analyze answers success = false.
C16_ShortDocumentRejected ==
    \A t \in DOMAIN request :
        ( /\ request[t].route = "analyze"
          /\ request[t].pc = "responded"
          /\ FailsLengthCheck(t) )
            => /\ request[t].raised = AnalysisFailed(TooShortError)
               /\ request[t].invoked = {}
               /\ request[t].after = request[t].before
               /\ analyzer.current_document_text = request[t].before
               /\ request[t].response.success = FALSE

\* An analysis of a text of 50 or more characters, fewer than 50 of them
\* after trimming, has been rejected while the analyzer held the text of an
\* earlier analysis, which it still holds.
C16_Witness ==
    \E t \in DOMAIN request :
        /\ request[t].route = "analyze"
        /\ request[t].pc = "responded"
        /\ FailsLengthCheck(t)
        /\ Len(request[t].text) >= 50
        /\ request[t].response.success = FALSE
        /\ request[t].before \notin {None, Missing}
        /\ analyzer.current_document_text = request[t].before

\* The request of thread t carries a question.
HasQuestion(t) ==
    /\ request[t].question # None
    /\ \E i \in 1..Len(request[t].question) : request[t].question[i] \notin Whitespace

\* C17: on an initialized analyzer, /ask answers success = false when the
\* question is empty or when no analysis has passed the length check yet;
\* otherwise it answers the question from the text of the most recent
\* analysis that passed the length check.
C17_AskUsesLastAccepted ==
    \A t \in DOMAIN request :
        ( /\ request[t].route = "ask"
          /\ request[t].pc = "responded"
          /\ analyzer.model = "GenerativeModel" )
            => /\ (~HasQuestion(t) \/ request[t].passed_at_check = None)
                     => request[t].response.success = FALSE
               /\ (HasQuestion(t) /\ request[t].passed_at_check # None)
                     => /\ request[t].response.success = TRUE
                        /\ request[t].response.body.prompt
                              = [question |-> strip(request[t].question),
                                 document |-> request[t].passed_at_answer]
                        /\ request[t].passed_at_answer = last_passed.text

\* A question has been answered from the text of an analysis that ended in an
\* error after the length check, although a later analysis was rejected as
\* too short.
C17_Witness ==
    \E t \in DOMAIN request :
        /\ request[t].route = "ask"
        /\ request[t].pc = "responded"
        /\ analyzer.model = "GenerativeModel"
        /\ request[t].response.success = TRUE
        /\ request[t].response.body.said = "generated"
        /\ request[t].response.body.prompt.document = last_passed.text
        /\ last_passed.failed
        /\ last_passed.rejected_since

====
